---- MODULE Spec2Model ----
(***************************************************************************)
(* Model of CosmosChatMessageStore                                         *)
(* (python/packages/cosmos/agent_framework_cosmos/_chat_message_store.py): *)
(* store instances of one Python process, the document-store account they  *)
(* talk to, and the calls the thread/agent layer makes on them.            *)
(***************************************************************************)
EXTENDS Integers, Sequences, FiniteSets, TLC

\* ---------------------------------------------------------------- bounds
\* Longest in-memory message list explored.
MaxLen == 3

\* ---------------------------------------------------------------- values
\* Store objects of the process: one that is used and one constructed later.
Stores == {1, 2}

\* Python values handed to the constructor.
PyStr(v) == [type |-> "str", val |-> v]
PyNone == [type |-> "NoneType", val |-> ""]
PyInt == [type |-> "int", val |-> "7"]

DefaultDatabase == "chat_messages_db"
DefaultContainer == "chat_messages_container"

\* Constructor inputs explored: (database_name, container_name).
NameInputs ==
    { <<PyStr(DefaultDatabase), PyStr(DefaultContainer)>>,
      <<PyInt, PyStr(DefaultContainer)>>,
      <<PyStr(DefaultDatabase), PyInt>> }

\* The same with empty names, for the specification of construction alone.
SettingsInputs ==
    NameInputs \cup { <<PyStr(""), PyStr(DefaultContainer)>>,
                      <<PyStr(DefaultDatabase), PyStr("")>>,
                      <<PyStr(""), PyStr("")>>,
                      <<PyInt, PyInt>> }

ThreadIdInputs == {PyNone, PyStr(""), PyStr("T1")}

\* Values uuid4() can produce.
Uuids == {"U1"}

\* ChatMessage objects, and the batches handed to add_messages.
ChatMessages == {"A", "B", "C"}
Batches == { <<>>, <<"A", "B">>, <<"C">> }

\* Identifiers of threads, and the references handed to deserialize_state:
\* a thread id alone, and an id with no thread id.
ThreadIds == {"T1"} \cup Uuids
References == { [thread_id |-> t] : t \in ThreadIds } \cup { [id |-> "T1"] }

\* Independent asyncio tasks of the process, each making one call.
Tasks == {1, 2}

\* Exceptions.
Ok == "ok"
ServiceInvalidExecutionSettingsError == "ServiceInvalidExecutionSettingsError"
ServiceResponseException == "ServiceResponseException"
ValidationError == "ValidationError"
CosmosResourceNotFoundError == "CosmosResourceNotFoundError"
CosmosHttpResponseError == "CosmosHttpResponseError"

\* Calls of the document-store client that do network I/O.
ClientCalls == {"read_database", "create_database", "read_container",
                "create_container", "read_item", "upsert_item"}

\* The client call (if any) that the service answers with an unexpected error,
\* among the calls a persist and a restore can make.
PersistFaults == {"none", "read_database", "create_database", "read_container",
                  "create_container", "upsert_item"}
\* ... of the calls a persist makes once the auto-create step is behind it.
WriteFaults == {"none", "upsert_item"}
RestoreFaults == {"none", "read_item"}

NoValue == "None"

\* The calls that write the document.
Persisting == {"serialize_state", "add_messages"}

VARIABLES
    constructed,                    \* store objects that exist in the process
    database_name,                  \* self.database_name
    container_name,                 \* self.container_name
    thread_id,                      \* self.thread_id
    _save_one_every_message,        \* self._save_one_every_message
    _create_container_and_database, \* self._create_container_and_database
    _messages,                      \* CosmosChatMessageStore._messages (class attribute)
    databases,                      \* account: databases that exist
    containers,                     \* account: <<database, container>> that exist
    items,                          \* account: documents, [db, cont, pk, doc]
    lastCall,                       \* the call that just returned, and what it did
    tasks,                          \* asyncio tasks: the call each is in, and where
    added                           \* per thread id, the messages given to add_messages

vars == <<constructed, database_name, container_name, thread_id,
          _save_one_every_message, _create_container_and_database, _messages,
          databases, containers, items, lastCall, tasks, added>>

\* Used only by the specifications of interleaved calls and of message origin.
auxVars == <<tasks, added>>

storeVars == <<constructed, database_name, container_name, thread_id,
               _save_one_every_message, _create_container_and_database>>
accountVars == <<databases, containers, items>>

\* ------------------------------------------------- pydantic models
\* ChatMessage.model_dump() / ChatMessage.model_validate().
DumpMessage(m) == [type |-> "chat_message", text |-> m]
LoadMessage(d) == d.text

RECURSIVE MapSeq(_, _)
MapSeq(Op(_), s) == IF s = <<>> THEN <<>> ELSE <<Op(Head(s))>> \o MapSeq(Op, Tail(s))

\* The validator leaving the input as it is.
set_id_from_thread_id_unset(values) == values

\* CosmosStoreState.set_id_from_thread_id: a "before" validator over the raw
\* input mapping.
set_id_from_thread_id(values) ==
    IF "thread_id" \in DOMAIN values /\ "id" \notin DOMAIN values
    THEN ("id" :> values["thread_id"]) @@ values
    ELSE values

\* CosmosStoreState taking a missing thread_id from the id.
CosmosStoreState_thread_id_from_id(values) ==
    LET v == set_id_from_thread_id(values) IN
    IF "thread_id" \notin DOMAIN v /\ "id" \notin DOMAIN v
    THEN [raised |-> ValidationError]
    ELSE [raised |-> Ok,
          id |-> IF "id" \in DOMAIN v THEN v["id"] ELSE NoValue,
          thread_id |-> IF "thread_id" \in DOMAIN v THEN v["thread_id"] ELSE v["id"],
          messages |-> IF "messages" \in DOMAIN v THEN v["messages"] ELSE <<>>]

\* CosmosStoreState(...): the validator, then the field checks (thread_id is required, the others have defaults).
CosmosStoreState(values) ==
    LET v == set_id_from_thread_id(values) IN
    IF "thread_id" \notin DOMAIN v
    THEN [raised |-> ValidationError]
    ELSE [raised |-> Ok,
          id |-> IF "id" \in DOMAIN v THEN v["id"] ELSE NoValue,
          thread_id |-> v["thread_id"],
          messages |-> IF "messages" \in DOMAIN v THEN v["messages"] ELSE <<>>]

\* CosmosStoreState.model_validate(item): the same over a raw mapping whose
\* messages are dumped ChatMessages.
model_validate(values) ==
    CosmosStoreState(IF "messages" \in DOMAIN values
                     THEN [values EXCEPT !["messages"] = MapSeq(LoadMessage, @)]
                     ELSE values)

\* CosmosStoreState.model_dump(): the document handed to upsert_item.
model_dump(state) ==
    [id |-> state.id,
     thread_id |-> state.thread_id,
     additional_properties |-> <<>>,
     messages |-> MapSeq(DumpMessage, state.messages)]

\* Settings that validate the database name only.
CosmosDBNoSqlSettings_database_only(dbn, cn) ==
    IF dbn.type = "str"
    THEN [raised |-> Ok, database_name |-> dbn.val, container_name |-> cn.val]
    ELSE [raised |-> ValidationError]

\* CosmosDBNoSqlSettings(database_name=..., container_name=...): both fields
\* are declared `str` and nothing else is required of them.
CosmosDBNoSqlSettings(dbn, cn) ==
    IF dbn.type = "str" /\ cn.type = "str"
    THEN [raised |-> Ok, database_name |-> dbn.val, container_name |-> cn.val]
    ELSE [raised |-> ValidationError]

\* ------------------------------------------------- the account
\* The document a container holds under (item id, partition key value).
ItemsAt(its, db, cont, item, pk) ==
    {i \in its : i.db = db /\ i.cont = cont /\ i.doc.id = item /\ i.pk = pk}

\* upsert_item that inserts without replacing.
UpsertItem_insert_only(its, db, cont, doc) ==
    its \cup {[db |-> db, cont |-> cont, pk |-> doc.thread_id, doc |-> doc]}

\* upsert_item(doc) on a container partitioned by /thread_id: insert or
\* replace the document with the same id in the same partition.
UpsertItem(its, db, cont, doc) ==
    (its \ ItemsAt(its, db, cont, doc.id, doc.thread_id))
        \cup {[db |-> db, cont |-> cont, pk |-> doc.thread_id, doc |-> doc]}

\* The existence checks and creations of the auto-create step.
EnsureCalls == {"read_database", "create_database", "read_container", "create_container"}

Issued(calls) == {calls[i] : i \in DOMAIN calls}

\* What the caller saw of a call: the operation, the store, the argument, the
\* exception raised (the exception it wraps, the item id its message names),
\* the value returned, the client calls issued, the message list before the
\* call, whether it was the first call on a store that had just been
\* constructed, and whether it ran the auto-create step right after another
\* call on the same store had run it.
Call(op, s, arg, raised, cause, detail, ret, calls) ==
    [op |-> op, self |-> s, arg |-> arg, raised |-> raised, cause |-> cause,
     detail |-> detail, ret |-> ret, calls |-> calls, pre |-> _messages,
     first |-> lastCall.op = "__init__" /\ lastCall.self = s /\ lastCall.raised = Ok,
     again |-> /\ "read_database" \in Issued(calls)
               /\ lastCall.self = s
               /\ "read_database" \in Issued(lastCall.calls)]

Imported ==
    [op |-> "import", self |-> 0, arg |-> NoValue, raised |-> Ok, cause |-> NoValue,
     detail |-> NoValue, ret |-> NoValue, calls |-> <<>>, pre |-> <<>>,
     first |-> FALSE, again |-> FALSE]

\* A task that has not called anything yet.
Idle ==
    [pc |-> "idle", self |-> 0, op |-> NoValue, doc |-> NoValue, calls |-> <<>>,
     raised |-> NoValue, concurrent |-> FALSE, absent |-> {}]

\* The messages of the documents an account holds, per thread id.
MessagesIn(its) ==
    [t \in ThreadIds |->
        UNION {Issued(MapSeq(LoadMessage, i.doc.messages)) : i \in {j \in its : j.pk = t}}]

\* The document serialize_state writes for thread tid holding msgs.
Document(tid, msgs) ==
    model_dump(CosmosStoreState([id |-> tid, thread_id |-> tid, messages |-> msgs]))

\* The account when the process starts: nothing in it yet, or the default
\* database and container with the document an earlier process checkpointed
\* for thread T1 after add_messages([A, B]).
Accounts ==
    { [databases |-> {}, containers |-> {}, items |-> {}],
      [databases |-> {DefaultDatabase},
       containers |-> {<<DefaultDatabase, DefaultContainer>>},
       items |-> UpsertItem({}, DefaultDatabase, DefaultContainer,
                            Document("T1", <<"A", "B">>))] }

Init ==
    /\ constructed = [s \in Stores |-> FALSE]
    /\ database_name = [s \in Stores |-> NoValue]
    /\ container_name = [s \in Stores |-> NoValue]
    /\ thread_id = [s \in Stores |-> NoValue]
    /\ _save_one_every_message = [s \in Stores |-> FALSE]
    /\ _create_container_and_database = [s \in Stores |-> FALSE]
    /\ _messages = <<>>
    /\ \E account \in Accounts :
         /\ databases = account.databases
         /\ containers = account.containers
         /\ items = account.items
    /\ lastCall = Imported
    /\ tasks = [t \in Tasks |-> Idle]
    /\ added = MessagesIn(items)

\* An account another tool wrote to: the default container, partitioned by
\* /id, holding under T1 a document that has no thread_id.
ForeignAccount ==
    [databases |-> {DefaultDatabase},
     containers |-> {<<DefaultDatabase, DefaultContainer>>},
     items |-> {[db |-> DefaultDatabase, cont |-> DefaultContainer, pk |-> "T1",
                 doc |-> [id |-> "T1", additional_properties |-> <<>>,
                          messages |-> <<>>]]}]

InitForeign ==
    /\ constructed = [s \in Stores |-> FALSE]
    /\ database_name = [s \in Stores |-> NoValue]
    /\ container_name = [s \in Stores |-> NoValue]
    /\ thread_id = [s \in Stores |-> NoValue]
    /\ _save_one_every_message = [s \in Stores |-> FALSE]
    /\ _create_container_and_database = [s \in Stores |-> FALSE]
    /\ _messages = <<>>
    /\ databases = ForeignAccount.databases
    /\ containers = ForeignAccount.containers
    /\ items = ForeignAccount.items
    /\ lastCall = Imported
    /\ tasks = [t \in Tasks |-> Idle]
    /\ added = MessagesIn(items)

\* ------------------------------------------------- construction
\* Identifiers in use, which uuid4() does not produce again.
UsedIds ==
    {thread_id[s] : s \in {t \in Stores : constructed[t]}}
        \cup {i.pk : i \in items}

\* CosmosChatMessageStore.__init__.  Nothing is assigned to self._messages.
__init__(s, inputs) ==
    /\ ~constructed[s]
    /\ \A t \in Stores : t < s => constructed[t]
    /\ \E names \in inputs, tid \in ThreadIdInputs,
          save_one_every_message \in BOOLEAN, create_container_and_database \in BOOLEAN :
         LET settings == CosmosDBNoSqlSettings(names[1], names[2]) IN
         IF settings.raised # Ok
         THEN /\ lastCall' = Call("__init__", s, names, ServiceInvalidExecutionSettingsError,
                                  settings.raised, NoValue, NoValue, <<>>)
              /\ UNCHANGED <<storeVars, _messages, accountVars>>
         ELSE /\ constructed' = [constructed EXCEPT ![s] = TRUE]
              /\ \E new_id \in (IF tid.type = "str" /\ tid.val # ""
                                 THEN {tid.val} ELSE Uuids \ UsedIds) :
                     thread_id' = [thread_id EXCEPT ![s] = new_id]
              /\ database_name' = [database_name EXCEPT ![s] = settings.database_name]
              /\ container_name' = [container_name EXCEPT ![s] = settings.container_name]
              /\ _create_container_and_database' =
                     [_create_container_and_database EXCEPT ![s] = create_container_and_database]
              /\ _save_one_every_message' =
                     [_save_one_every_message EXCEPT ![s] = save_one_every_message]
              /\ lastCall' = Call("__init__", s, names, Ok, NoValue, NoValue, NoValue, <<>>)
              /\ UNCHANGED <<_messages, accountVars>>

Construct(s) == __init__(s, NameInputs)

\* ------------------------------------------------- persistence
\* _does_database_exist answering that the database is missing, always.
_does_database_exist_never(s, dbs, fault) ==
    IF fault = "read_database"
    THEN [raised |-> ServiceResponseException, ret |-> FALSE]
    ELSE [raised |-> Ok, ret |-> FALSE]

\* _does_database_exist: a metadata read; not-found is False, anything else
\* is wrapped.
_does_database_exist(s, dbs, fault) ==
    IF fault = "read_database"
    THEN [raised |-> ServiceResponseException, ret |-> FALSE]
    ELSE [raised |-> Ok, ret |-> database_name[s] \in dbs]

\* _does_container_exist.
_does_container_exist(s, conts, fault) ==
    IF fault = "read_container"
    THEN [raised |-> ServiceResponseException, ret |-> FALSE]
    ELSE [raised |-> Ok, ret |-> <<database_name[s], container_name[s]>> \in conts]

\* _create_database_and_container_if_not_exists: check then create, each in
\* turn; every exception leaves as ServiceResponseException.  What was created
\* before the failure stays created.
_create_database_and_container_if_not_exists(s, fault) ==
    LET db == database_name[s]
        cont == container_name[s]
        e1 == _does_database_exist(s, databases, fault)
        createDb == e1.raised = Ok /\ ~e1.ret
        failDb == createDb /\ fault = "create_database"
        dbs1 == IF createDb /\ ~failDb THEN databases \cup {db} ELSE databases
        calls1 == <<"read_database">> \o (IF createDb THEN <<"create_database">> ELSE <<>>)
        e2 == _does_container_exist(s, containers, fault)
        createCont == e2.raised = Ok /\ ~e2.ret
        failCont == createCont /\ fault = "create_container"
        conts2 == IF createCont /\ ~failCont THEN containers \cup {<<db, cont>>} ELSE containers
        calls2 == calls1 \o <<"read_container">>
                         \o (IF createCont THEN <<"create_container">> ELSE <<>>)
    IN  IF e1.raised # Ok \/ failDb
        THEN [raised |-> ServiceResponseException, calls |-> calls1,
              databases |-> dbs1, containers |-> containers]
        ELSE IF e2.raised # Ok \/ failCont
        THEN [raised |-> ServiceResponseException, calls |-> calls2,
              databases |-> dbs1, containers |-> conts2]
        ELSE [raised |-> Ok, calls |-> calls2, databases |-> dbs1, containers |-> conts2]

\* serialize_state clearing the flag before the auto-create step has run.
serialize_state_clears_first(s, msgs, fault) ==
    LET db == database_name[s]
        cont == container_name[s]
        ensure == IF _create_container_and_database[s]
                  THEN _create_database_and_container_if_not_exists(s, fault)
                  ELSE [raised |-> Ok, calls |-> <<>>,
                        databases |-> databases, containers |-> containers]
        serialized_state == Document(thread_id[s], msgs)
        upsert == IF fault = "upsert_item" THEN CosmosHttpResponseError
                  ELSE IF <<db, cont>> \notin ensure.containers
                       THEN CosmosResourceNotFoundError
                       ELSE Ok
    IN  IF ensure.raised # Ok
        THEN [raised |-> ensure.raised, ret |-> NoValue, calls |-> ensure.calls,
              flag |-> FALSE,
              databases |-> ensure.databases, containers |-> ensure.containers,
              items |-> items]
        ELSE [raised |-> upsert,
              ret |-> IF upsert = Ok THEN thread_id[s] ELSE NoValue,
              calls |-> ensure.calls \o <<"upsert_item">>,
              flag |-> FALSE,
              databases |-> ensure.databases, containers |-> ensure.containers,
              items |-> IF upsert = Ok
                        THEN UpsertItem(items, db, cont, serialized_state)
                        ELSE items]

\* serialize_state running the auto-create step whatever the flag says.
serialize_state_always_creates(s, msgs, fault) ==
    LET db == database_name[s]
        cont == container_name[s]
        ensure == _create_database_and_container_if_not_exists(s, fault)
        serialized_state == Document(thread_id[s], msgs)
        upsert == IF fault = "upsert_item" THEN CosmosHttpResponseError
                  ELSE IF <<db, cont>> \notin ensure.containers
                       THEN CosmosResourceNotFoundError
                       ELSE Ok
    IN  IF ensure.raised # Ok
        THEN [raised |-> ensure.raised, ret |-> NoValue, calls |-> ensure.calls,
              flag |-> _create_container_and_database[s],
              databases |-> ensure.databases, containers |-> ensure.containers,
              items |-> items]
        ELSE [raised |-> upsert,
              ret |-> IF upsert = Ok THEN thread_id[s] ELSE NoValue,
              calls |-> ensure.calls \o <<"upsert_item">>,
              flag |-> FALSE,
              databases |-> ensure.databases, containers |-> ensure.containers,
              items |-> IF upsert = Ok
                        THEN UpsertItem(items, db, cont, serialized_state)
                        ELSE items]

\* serialize_state, called when the message list is msgs: the outcome and the
\* new values of what it can change.
serialize_state(s, msgs, fault) ==
    LET db == database_name[s]
        cont == container_name[s]
        ensure == IF _create_container_and_database[s]
                  THEN _create_database_and_container_if_not_exists(s, fault)
                  ELSE [raised |-> Ok, calls |-> <<>>,
                        databases |-> databases, containers |-> containers]
        serialized_state == Document(thread_id[s], msgs)
        upsert == IF fault = "upsert_item" THEN CosmosHttpResponseError
                  ELSE IF <<db, cont>> \notin ensure.containers
                       THEN CosmosResourceNotFoundError
                       ELSE Ok
    IN  IF ensure.raised # Ok
        THEN [raised |-> ensure.raised, ret |-> NoValue, calls |-> ensure.calls,
              flag |-> _create_container_and_database[s],
              databases |-> ensure.databases, containers |-> ensure.containers,
              items |-> items]
        ELSE [raised |-> upsert,
              ret |-> IF upsert = Ok THEN thread_id[s] ELSE NoValue,
              calls |-> ensure.calls \o <<"upsert_item">>,
              flag |-> FALSE,
              databases |-> ensure.databases, containers |-> ensure.containers,
              items |-> IF upsert = Ok
                        THEN UpsertItem(items, db, cont, serialized_state)
                        ELSE items]

SerializeState(s) ==
    /\ constructed[s]
    /\ \E fault \in (IF _create_container_and_database[s]
                      THEN PersistFaults ELSE WriteFaults) :
         LET r == serialize_state(s, _messages, fault) IN
         /\ _create_container_and_database' =
                [_create_container_and_database EXCEPT ![s] = r.flag]
         /\ databases' = r.databases
         /\ containers' = r.containers
         /\ items' = r.items
         /\ lastCall' = Call("serialize_state", s, NoValue, r.raised, NoValue, NoValue,
                             r.ret, r.calls)
         /\ UNCHANGED <<constructed, database_name, container_name, thread_id,
                        _save_one_every_message, _messages>>

\* add_messages with the persist taken before the list is extended.
add_messages_persist_first(s, messages, fault) ==
    LET extended == _messages \o messages IN
    IF _save_one_every_message[s]
    THEN [messages |-> extended] @@ serialize_state(s, _messages, fault)
    ELSE [messages |-> extended, raised |-> Ok, ret |-> NoValue, calls |-> <<>>,
          flag |-> _create_container_and_database[s],
          databases |-> databases, containers |-> containers, items |-> items]

\* add_messages that persists whatever the flag says.
add_messages_always_persist(s, messages, fault) ==
    LET extended == _messages \o messages IN
    [messages |-> extended] @@ serialize_state(s, extended, fault)

\* add_messages that takes the messages back when the persist fails.
add_messages_rolls_back(s, messages, fault) ==
    LET extended == _messages \o messages
        r == serialize_state(s, extended, fault)
    IN  IF _save_one_every_message[s]
        THEN [messages |-> IF r.raised = Ok THEN extended ELSE _messages] @@ r
        ELSE [messages |-> extended, raised |-> Ok, ret |-> NoValue, calls |-> <<>>,
              flag |-> _create_container_and_database[s],
              databases |-> databases, containers |-> containers, items |-> items]

\* add_messages(messages): extend the list, then persist if the store writes
\* after every message.
add_messages(s, messages, fault) ==
    LET extended == _messages \o messages IN
    IF _save_one_every_message[s]
    THEN [messages |-> extended] @@ serialize_state(s, extended, fault)
    ELSE [messages |-> extended, raised |-> Ok, ret |-> NoValue, calls |-> <<>>,
          flag |-> _create_container_and_database[s],
          databases |-> databases, containers |-> containers, items |-> items]

AddMessages(s) ==
    /\ constructed[s]
    /\ \E messages \in Batches,
          fault \in (IF ~_save_one_every_message[s] THEN {"none"}
                     ELSE IF _create_container_and_database[s]
                          THEN PersistFaults ELSE WriteFaults) :
         LET r == add_messages(s, messages, fault) IN
         /\ Len(r.messages) <= MaxLen
         /\ _messages' = r.messages
         /\ _create_container_and_database' =
                [_create_container_and_database EXCEPT ![s] = r.flag]
         /\ databases' = r.databases
         /\ containers' = r.containers
         /\ items' = r.items
         /\ lastCall' = Call("add_messages", s, messages, r.raised, NoValue, NoValue,
                             NoValue, r.calls)
         /\ UNCHANGED <<constructed, database_name, container_name, thread_id,
                        _save_one_every_message>>

\* list_messages returning the newest message first.
list_messages_newest_first(s) ==
    [i \in 1..Len(_messages) |-> _messages[Len(_messages) + 1 - i]]

\* list_messages: self._messages, which is the class's list.
list_messages(s) == _messages

ListMessages(s) ==
    /\ constructed[s]
    /\ lastCall' = Call("list_messages", s, NoValue, Ok, NoValue, NoValue,
                        list_messages(s), <<>>)
    /\ UNCHANGED <<storeVars, _messages, accountVars>>

\* read_item that answers a missing item with an empty document.
read_item_empty_when_missing(db, cont, item, partition_key, fault) ==
    LET found == IF <<db, cont>> \in containers
                 THEN ItemsAt(items, db, cont, item, partition_key) ELSE {}
    IN  IF fault = "read_item"
        THEN [raised |-> CosmosHttpResponseError, item |-> <<>>]
        ELSE IF found = {}
        THEN [raised |-> Ok, item |-> [id |-> item, thread_id |-> partition_key]]
        ELSE [raised |-> Ok, item |-> (CHOOSE i \in found : TRUE).doc]

\* container_client.read_item(item=..., partition_key=...): the document, the
\* client's not-found error when the container holds none, or another error.
read_item(db, cont, item, partition_key, fault) ==
    LET found == IF <<db, cont>> \in containers
                 THEN ItemsAt(items, db, cont, item, partition_key) ELSE {}
    IN  IF fault = "read_item"
        THEN [raised |-> CosmosHttpResponseError, item |-> <<>>]
        ELSE IF found = {}
        THEN [raised |-> CosmosResourceNotFoundError, item |-> <<>>]
        ELSE [raised |-> Ok, item |-> (CHOOSE i \in found : TRUE).doc]

\* deserialize_state replacing the list with the loaded messages.
deserialize_state_replaces(s, serialized_store_state, fault) ==
    LET db == database_name[s]
        cont == container_name[s]
        chat_message_store_state == model_validate(serialized_store_state)
        read == read_item(db, cont, chat_message_store_state.thread_id,
                          chat_message_store_state.thread_id, fault)
        deserialized_state == model_validate(read.item)
        unchanged == [thread_id |-> thread_id[s], messages |-> _messages]
    IN  IF chat_message_store_state.raised # Ok
        THEN [raised |-> ValidationError, cause |-> NoValue, detail |-> NoValue,
              calls |-> <<>>] @@ unchanged
        ELSE IF read.raised # Ok
        THEN [raised |-> ServiceResponseException, cause |-> read.raised,
              detail |-> chat_message_store_state.id,
              calls |-> <<"read_item">>] @@ unchanged
        ELSE IF deserialized_state.raised # Ok
        THEN [raised |-> ValidationError, cause |-> NoValue, detail |-> NoValue,
              calls |-> <<"read_item">>] @@ unchanged
        ELSE [raised |-> Ok, cause |-> NoValue, detail |-> NoValue,
              calls |-> <<"read_item">>,
              thread_id |-> deserialized_state.thread_id,
              messages |-> deserialized_state.messages]

\* deserialize_state taking the reference's thread id before the read.
deserialize_state_sets_thread_id_first(s, serialized_store_state, fault) ==
    LET db == database_name[s]
        cont == container_name[s]
        chat_message_store_state == model_validate(serialized_store_state)
        read == read_item(db, cont, chat_message_store_state.thread_id,
                          chat_message_store_state.thread_id, fault)
        deserialized_state == model_validate(read.item)
        unchanged == [thread_id |-> thread_id[s], messages |-> _messages]
        started == [thread_id |-> chat_message_store_state.thread_id,
                    messages |-> _messages]
    IN  IF chat_message_store_state.raised # Ok
        THEN [raised |-> ValidationError, cause |-> NoValue, detail |-> NoValue,
              calls |-> <<>>] @@ unchanged
        ELSE IF read.raised # Ok
        THEN [raised |-> ServiceResponseException, cause |-> read.raised,
              detail |-> chat_message_store_state.id,
              calls |-> <<"read_item">>] @@ started
        ELSE IF deserialized_state.raised # Ok
        THEN [raised |-> ValidationError, cause |-> NoValue, detail |-> NoValue,
              calls |-> <<"read_item">>] @@ started
        ELSE [raised |-> Ok, cause |-> NoValue, detail |-> NoValue,
              calls |-> <<"read_item">>,
              thread_id |-> deserialized_state.thread_id,
              messages |-> _messages \o deserialized_state.messages]

\* deserialize_state(serialized_store_state): validate the reference, read the
\* item it names, validate the item, take its thread id and extend the list.
\* Every exception of read_item leaves as ServiceResponseException.
deserialize_state(s, serialized_store_state, fault) ==
    LET db == database_name[s]
        cont == container_name[s]
        chat_message_store_state == model_validate(serialized_store_state)
        read == read_item(db, cont, chat_message_store_state.thread_id,
                          chat_message_store_state.thread_id, fault)
        deserialized_state == model_validate(read.item)
        unchanged == [thread_id |-> thread_id[s], messages |-> _messages]
    IN  IF chat_message_store_state.raised # Ok
        THEN [raised |-> ValidationError, cause |-> NoValue, detail |-> NoValue,
              calls |-> <<>>] @@ unchanged
        ELSE IF read.raised # Ok
        THEN [raised |-> ServiceResponseException, cause |-> read.raised,
              detail |-> chat_message_store_state.id,
              calls |-> <<"read_item">>] @@ unchanged
        ELSE IF deserialized_state.raised # Ok
        THEN [raised |-> ValidationError, cause |-> NoValue, detail |-> NoValue,
              calls |-> <<"read_item">>] @@ unchanged
        ELSE [raised |-> Ok, cause |-> NoValue, detail |-> NoValue,
              calls |-> <<"read_item">>,
              thread_id |-> deserialized_state.thread_id,
              messages |-> _messages \o deserialized_state.messages]

DeserializeState(s) ==
    /\ constructed[s]
    /\ \E serialized_store_state \in References, fault \in RestoreFaults :
         LET r == deserialize_state(s, serialized_store_state, fault) IN
         /\ Len(r.messages) <= MaxLen
         /\ thread_id' = [thread_id EXCEPT ![s] = r.thread_id]
         /\ _messages' = r.messages
         /\ lastCall' = Call("deserialize_state", s, serialized_store_state,
                             r.raised, r.cause, r.detail, NoValue, r.calls)
         /\ UNCHANGED <<constructed, database_name, container_name,
                        _save_one_every_message, _create_container_and_database,
                        accountVars>>

Next ==
    \/ \E s \in Stores : Construct(s) /\ UNCHANGED auxVars
    \/ \E s \in Stores : AddMessages(s) /\ UNCHANGED auxVars
    \/ \E s \in Stores : ListMessages(s) /\ UNCHANGED auxVars
    \/ \E s \in Stores : SerializeState(s) /\ UNCHANGED auxVars
    \/ \E s \in Stores : DeserializeState(s) /\ UNCHANGED auxVars

Spec == Init /\ [][Next]_vars

\* Construction alone, over the wider settings inputs.
NextSettings ==
    \/ \E s \in Stores : __init__(s, SettingsInputs) /\ UNCHANGED auxVars
    \/ \E s \in Stores : ListMessages(s) /\ UNCHANGED auxVars

SpecSettings == Init /\ [][NextSettings]_vars

\* The same calls on the account another tool wrote to.
SpecForeign == InitForeign /\ [][Next]_vars

\* ------------------------------------------------- calls from asyncio tasks
\* A coroutine runs without interruption until it awaits a client call; the
\* event loop may then run another task.  The awaits that suspend are the
\* client calls of lines 80, 93, 106, 109 and 179; _get_container_client
\* (lines 115-123) awaits nothing that suspends.  In these runs the service
\* answers every call by what the account holds.
Running(t) == tasks[t].pc \notin {"idle", "returned"}

\* The task issues the client call and suspends on it.
Awaiting(task, call) == [task EXCEPT !.pc = call, !.calls = @ \o <<call>>]

\* The call of the task returns or raises.
Returned(task, raised) == [task EXCEPT !.pc = "returned", !.raised = raised]

\* add_messages handing serialize_state the list as it was before the extend.
add_messages_start_persist_first(s, messages) ==
    [messages |-> _messages \o messages,
     persisted |-> _messages,
     persists |-> _save_one_every_message[s]]

\* add_messages up to its first await: line 135 extends the list, line 136
\* decides whether serialize_state runs, which then reads the extended list.
add_messages_start(s, messages) ==
    [messages |-> _messages \o messages,
     persisted |-> _messages \o messages,
     persists |-> _save_one_every_message[s]]

\* serialize_state up to its first await, called directly.
serialize_state_start(s) ==
    [messages |-> _messages, persisted |-> _messages, persists |-> TRUE]

\* A task calls add_messages or serialize_state on a store and runs to the
\* first client call: read_database when the auto-create flag is set (line
\* 170), else the upsert of the document built from the list (lines 174-179).
TaskBegin(t) ==
    /\ tasks[t].pc = "idle"
    /\ \E s \in Stores, op \in Persisting, messages \in Batches :
         /\ constructed[s]
         /\ op = "serialize_state" => messages = <<>>
         /\ LET start == IF op = "add_messages"
                         THEN add_messages_start(s, messages)
                         ELSE serialize_state_start(s)
                overlap == \E u \in Tasks \ {t} : Running(u)
                called == [Idle EXCEPT !.self = s, !.op = op, !.concurrent = overlap]
                mine == IF ~start.persists
                        THEN Returned(called, Ok)
                        ELSE IF _create_container_and_database[s]
                        THEN Awaiting(called, "read_database")
                        ELSE Awaiting([called EXCEPT
                                          !.doc = Document(thread_id[s], start.persisted)],
                                      "upsert_item")
            IN  /\ Len(start.messages) <= MaxLen
                /\ _messages' = start.messages
                /\ tasks' = [u \in Tasks |->
                                IF u = t THEN mine
                                ELSE IF Running(u)
                                     THEN [tasks[u] EXCEPT !.concurrent = TRUE]
                                     ELSE tasks[u]]
    /\ UNCHANGED <<storeVars, accountVars, lastCall, added>>

\* The service answers the client call a task is suspended on, and the task
\* runs on to its next client call or to its return.  A create of what
\* exists by now is a conflict, which line 110 wraps; the flag is cleared only
\* when the auto-create step has returned (line 172), and the document is
\* built from the list as it is then (lines 174-178).
TaskRespond(t) ==
    LET me == tasks[t]
        s == me.self
        db == database_name[s]
        cont == container_name[s]
        ensured == Awaiting([me EXCEPT !.doc = Document(thread_id[s], _messages)],
                            "upsert_item")
        cleared == [_create_container_and_database EXCEPT ![s] = FALSE]
    IN  /\ Running(t)
        /\ CASE me.pc = "read_database" ->
                    LET saw == IF db \in databases THEN me
                               ELSE [me EXCEPT !.absent = @ \cup {"database"}]
                    IN  /\ tasks' = [tasks EXCEPT ![t] =
                               Awaiting(saw, IF _does_database_exist(s, databases, "none").ret
                                             THEN "read_container"
                                             ELSE "create_database")]
                        /\ UNCHANGED <<_create_container_and_database, accountVars>>
             [] me.pc = "create_database" ->
                    IF db \in databases
                    THEN /\ tasks' = [tasks EXCEPT ![t] =
                                         Returned(me, ServiceResponseException)]
                         /\ UNCHANGED <<_create_container_and_database, accountVars>>
                    ELSE /\ databases' = databases \cup {db}
                         /\ tasks' = [tasks EXCEPT ![t] = Awaiting(me, "read_container")]
                         /\ UNCHANGED <<_create_container_and_database, containers, items>>
             [] me.pc = "read_container" ->
                    LET saw == IF <<db, cont>> \in containers THEN me
                               ELSE [me EXCEPT !.absent = @ \cup {"container"}]
                    IN  IF _does_container_exist(s, containers, "none").ret
                        THEN /\ tasks' = [tasks EXCEPT ![t] = ensured]
                             /\ _create_container_and_database' = cleared
                             /\ UNCHANGED accountVars
                        ELSE /\ tasks' = [tasks EXCEPT ![t] =
                                             Awaiting(saw, "create_container")]
                             /\ UNCHANGED <<_create_container_and_database, accountVars>>
             [] me.pc = "create_container" ->
                    IF <<db, cont>> \in containers
                    THEN /\ tasks' = [tasks EXCEPT ![t] =
                                         Returned(me, ServiceResponseException)]
                         /\ UNCHANGED <<_create_container_and_database, accountVars>>
                    ELSE /\ containers' = containers \cup {<<db, cont>>}
                         /\ tasks' = [tasks EXCEPT ![t] = ensured]
                         /\ _create_container_and_database' = cleared
                         /\ UNCHANGED <<databases, items>>
             [] me.pc = "upsert_item" ->
                    IF <<db, cont>> \in containers
                    THEN /\ items' = UpsertItem(items, db, cont, me.doc)
                         /\ tasks' = [tasks EXCEPT ![t] = Returned(me, Ok)]
                         /\ UNCHANGED <<_create_container_and_database, databases,
                                        containers>>
                    ELSE /\ tasks' = [tasks EXCEPT ![t] =
                                         Returned(me, CosmosResourceNotFoundError)]
                         /\ UNCHANGED <<_create_container_and_database, accountVars>>
        /\ UNCHANGED <<constructed, database_name, container_name, thread_id,
                       _save_one_every_message, _messages, lastCall, added>>

NextTasks ==
    \/ \E s \in Stores : Construct(s) /\ UNCHANGED auxVars
    \/ \E t \in Tasks : TaskBegin(t)
    \/ \E t \in Tasks : TaskRespond(t)

\* Stores constructed, then one call from each task, interleaved at the awaits.
SpecTasks == Init /\ [][NextTasks]_vars

\* ------------------------------------------------- where messages came from
\* add_messages, with the record of the thread the store was on when it was
\* given the messages.
AddMessagesOnThread(s) ==
    /\ AddMessages(s)
    /\ added' = [added EXCEPT ![thread_id[s]] = @ \cup Issued(lastCall'.arg)]
    /\ UNCHANGED tasks

NextIsolation ==
    \/ \E s \in Stores : Construct(s) /\ UNCHANGED auxVars
    \/ \E s \in Stores : AddMessagesOnThread(s)
    \/ \E s \in Stores : SerializeState(s) /\ UNCHANGED auxVars
    \/ \E s \in Stores : DeserializeState(s) /\ UNCHANGED auxVars

\* The process starts on the account that already holds thread T1's document.
InitIsolation == Init /\ items # {}

\* The calls that change the list or the documents, with that record kept.
SpecIsolation == InitIsolation /\ [][NextIsolation]_vars

\* ------------------------------------------------- properties
\* The messages of the document stored for thread t in store s's container.
StoredAt(s, t) == ItemsAt(items, database_name[s], container_name[s], t, t)
StoredMessages(s, t) == {MapSeq(LoadMessage, i.doc.messages) : i \in StoredAt(s, t)}

\* C1: when a store with thread id T and buffer M has serialized, and a fresh
\* store of the same process restores reference T as its first call,
\* list_messages() on the fresh store is exactly M.
C1_RoundTripSameProcess ==
    ( /\ lastCall.op = "deserialize_state"
      /\ lastCall.raised = Ok
      /\ lastCall.first
      /\ \E a \in Stores \ {lastCall.self} :
            /\ constructed[a]
            /\ thread_id[a] = lastCall.arg.thread_id
            /\ StoredMessages(a, thread_id[a]) = {lastCall.pre} )
    => StoredMessages(lastCall.self, lastCall.arg.thread_id)
          = {list_messages(lastCall.self)}

\* C2: a store that has just been constructed lists no messages, and
\* add_messages on one store leaves list_messages() of every other store as it
\* was.
C2_FreshStoreIsEmpty ==
    /\ (lastCall.op = "__init__" /\ lastCall.raised = Ok)
          => list_messages(lastCall.self) = <<>>
    /\ lastCall.op = "add_messages"
          => \A t \in Stores \ {lastCall.self} :
                constructed[t] => list_messages(t) = lastCall.pre

\* C3: an add_messages(msgs) that returns normally on a store that writes after
\* every message has issued exactly one upsert, and the document stored under
\* the store's thread id holds the in-memory list, which ends with msgs.
C3_EagerWriteThrough ==
    ( /\ lastCall.op = "add_messages"
      /\ lastCall.raised = Ok
      /\ _save_one_every_message[lastCall.self] )
    => /\ Cardinality({i \in DOMAIN lastCall.calls :
                          lastCall.calls[i] = "upsert_item"}) = 1
       /\ StoredMessages(lastCall.self, thread_id[lastCall.self])
             = {list_messages(lastCall.self)}
       /\ list_messages(lastCall.self) = lastCall.pre \o lastCall.arg

C3_Witness ==
    /\ lastCall.op = "add_messages"
    /\ lastCall.raised = Ok
    /\ _save_one_every_message[lastCall.self]
    /\ lastCall.arg = <<"C">>
    /\ lastCall.pre = <<"A", "B">>

\* C4: on a store that does not write after every message, construction,
\* add_messages and list_messages issue no client call and leave the account
\* as it was.
C4_CheckpointOnly ==
    [][ ( /\ lastCall'.op \in {"__init__", "add_messages", "list_messages"}
          /\ ~_save_one_every_message'[lastCall'.self] )
        => /\ lastCall'.calls = <<>>
           /\ items' = items
           /\ databases' = databases
           /\ containers' = containers ]_vars

C4_Witness ==
    /\ lastCall.op = "add_messages"
    /\ ~_save_one_every_message[lastCall.self]
    /\ lastCall.arg = <<"C">>
    /\ StoredMessages(lastCall.self, thread_id[lastCall.self]) = {<<"A", "B">>}
    /\ list_messages(lastCall.self) = <<"A", "B", "C">>

C6_PersistFailuresWrapped ==
    (lastCall.op = "serialize_state" /\ lastCall.raised # Ok)
        => lastCall.raised = ServiceResponseException

\* C7 (as stated): a store runs the check-then-create step at most once, so no
\* persist runs it right after another persist on the same store ran it.
C7_AutoCreateRunsOnce == ~lastCall.again

\* C7 (amended): the pending-creation flag never returns to true; a persist
\* on a store whose flag is clear issues no existence check and no creation;
\* a persist on a store whose flag is set runs the step and clears the flag
\* exactly when the step raised nothing, so the step completes at most once
\* and is run again after a failure.
C7_AutoCreateCompletesOnce ==
    [][ \A s \in Stores :
          constructed[s] =>
            /\ ~_create_container_and_database[s] => ~_create_container_and_database'[s]
            /\ ( /\ lastCall'.self = s
                 /\ \/ lastCall'.op = "serialize_state"
                    \/ lastCall'.op = "add_messages" /\ _save_one_every_message[s] )
               => IF _create_container_and_database[s]
                  THEN /\ "read_database" \in Issued(lastCall'.calls)
                       /\ _create_container_and_database'[s]
                             <=> lastCall'.raised = ServiceResponseException
                  ELSE Issued(lastCall'.calls) \cap EnsureCalls = {} ]_vars

C7_Witness ==
    /\ lastCall.op = "serialize_state"
    /\ lastCall.again
    /\ lastCall.raised = Ok
    /\ "create_container" \in Issued(lastCall.calls)
    /\ ~_create_container_and_database[lastCall.self]

\* C8 (as stated): construction with a database or container name that is
\* empty or not a string fails with ServiceInvalidExecutionSettingsError,
\* leaves no store object and makes no client call.
C8_EmptyOrInvalidNameRejected ==
    ( /\ lastCall.op = "__init__"
      /\ \E i \in 1..2 : lastCall.arg[i].type # "str" \/ lastCall.arg[i].val = "" )
    => /\ lastCall.raised = ServiceInvalidExecutionSettingsError
       /\ ~constructed[lastCall.self]
       /\ lastCall.calls = <<>>

\* C8 (amended): construction with a database or container name that is not
\* a string fails with ServiceInvalidExecutionSettingsError, leaves no store
\* object and makes no client call; with two strings, empty or not, it
\* succeeds and keeps them as the names.
C8_InvalidNameRejected ==
    lastCall.op = "__init__" =>
        IF \E i \in 1..2 : lastCall.arg[i].type # "str"
        THEN /\ lastCall.raised = ServiceInvalidExecutionSettingsError
             /\ ~constructed[lastCall.self]
             /\ lastCall.calls = <<>>
        ELSE /\ lastCall.raised = Ok
             /\ constructed[lastCall.self]
             /\ database_name[lastCall.self] = lastCall.arg[1].val
             /\ container_name[lastCall.self] = lastCall.arg[2].val
             /\ lastCall.calls = <<>>

C8_Witness ==
    /\ lastCall.op = "__init__"
    /\ lastCall.arg[2].type # "str"
    /\ lastCall.raised = ServiceInvalidExecutionSettingsError
    /\ lastCall.self = 2
    /\ constructed[1]

\* C9: after a successful serialize_state the container holds, under the
\* store's thread id, one document, whose messages are the in-memory list as
\* it was at the call, and the call returned that thread id.
C9_SerializeWritesBuffer ==
    (lastCall.op = "serialize_state" /\ lastCall.raised = Ok)
    => /\ Cardinality(StoredAt(lastCall.self, thread_id[lastCall.self])) = 1
       /\ StoredMessages(lastCall.self, thread_id[lastCall.self]) = {lastCall.pre}
       /\ lastCall.pre = list_messages(lastCall.self)
       /\ lastCall.ret = thread_id[lastCall.self]

C9_Witness ==
    /\ lastCall.op = "serialize_state"
    /\ lastCall.raised = Ok
    /\ thread_id[lastCall.self] = "T1"
    /\ StoredMessages(lastCall.self, "T1") = {<<"A", "B", "C">>}

\* C10: every document in the account has id equal to its thread_id and is
\* stored under that thread_id as partition key value; and the persisted-state
\* object built from a reference without an id has the reference's thread_id
\* as its id.
C10_IdIsThreadId ==
    /\ \A i \in items : i.doc.id = i.doc.thread_id /\ i.pk = i.doc.thread_id
    /\ ( /\ lastCall.op = "deserialize_state"
         /\ lastCall.raised = ServiceResponseException
         /\ "id" \notin DOMAIN lastCall.arg )
       => lastCall.detail = lastCall.arg.thread_id

C10_Witness ==
    /\ lastCall.op = "deserialize_state"
    /\ lastCall.raised = ServiceResponseException
    /\ lastCall.arg = [thread_id |-> "T1"]
    /\ \E i \in items : i.doc.id = "U1"

\* C11: list_messages returns the in-memory list in insertion order and
\* changes neither the list, nor any store's thread id or flags, nor the
\* account, and issues no client call.
C11_ListMessagesReadOnly ==
    [][ lastCall'.op = "list_messages"
        => /\ lastCall'.ret = _messages
           /\ lastCall'.raised = Ok
           /\ lastCall'.calls = <<>>
           /\ UNCHANGED <<storeVars, _messages, accountVars>> ]_vars

C11_Witness ==
    /\ lastCall.op = "list_messages"
    /\ lastCall.ret = <<"C", "A", "B">>
    /\ items # {}

\* C12: a successful deserialize_state(ref) leaves the store with the thread id
\* of the document read, which is ref's, and with the list it had before
\* followed by the document's messages in stored order.
C12_AdditiveRestore ==
    (lastCall.op = "deserialize_state" /\ lastCall.raised = Ok)
    => /\ thread_id[lastCall.self] = lastCall.arg.thread_id
       /\ \E i \in StoredAt(lastCall.self, lastCall.arg.thread_id) :
             /\ thread_id[lastCall.self] = i.doc.thread_id
             /\ list_messages(lastCall.self)
                   = lastCall.pre \o MapSeq(LoadMessage, i.doc.messages)

\* serialize_state and then deserialize_state of the same thread on one list:
\* the messages are there twice.
C12_Witness ==
    /\ lastCall.op = "deserialize_state"
    /\ lastCall.raised = Ok
    /\ lastCall.pre = <<"C">>
    /\ StoredMessages(lastCall.self, lastCall.arg.thread_id) = {<<"C">>}
    /\ list_messages(lastCall.self) = <<"C", "C">>

C16_InvalidReferenceRejected ==
    (lastCall.op = "deserialize_state" /\ "thread_id" \notin DOMAIN lastCall.arg)
    => /\ lastCall.raised = ValidationError
       /\ lastCall.calls = <<>>

C16_Witness ==
    /\ lastCall.op = "deserialize_state"
    /\ lastCall.arg = [id |-> "T1"]
    /\ lastCall.raised = ValidationError
    /\ StoredAt(lastCall.self, "T1") # {}

\* C18: a serialize_state on a store whose create flag is set runs the
\* existence checks; when the step fails it upserts nothing and leaves the
\* documents, the flag and the messages as they were; when the call succeeds
\* both resources exist and the document holds the messages.
C18_FailedAutoCreateRetried ==
    [][ \A s \in Stores :
          ( /\ lastCall'.op = "serialize_state"
            /\ lastCall'.self = s
            /\ _create_container_and_database[s] )
          => /\ "read_database" \in Issued(lastCall'.calls)
             /\ lastCall'.raised = ServiceResponseException
                   => /\ "upsert_item" \notin Issued(lastCall'.calls)
                      /\ items' = items
                      /\ _create_container_and_database'[s]
                      /\ _messages' = _messages
             /\ lastCall'.raised = Ok
                   => /\ database_name[s] \in databases'
                      /\ <<database_name[s], container_name[s]>> \in containers'
                      /\ {MapSeq(LoadMessage, i.doc.messages) :
                             i \in ItemsAt(items', database_name[s], container_name[s],
                                           thread_id[s], thread_id[s])} = {_messages} ]_vars

C18_Witness ==
    /\ lastCall.op = "serialize_state"
    /\ lastCall.raised = ServiceResponseException
    /\ lastCall.calls = <<"read_database", "create_database", "read_container",
                          "create_container">>
    /\ _create_container_and_database[lastCall.self]
    /\ list_messages(lastCall.self) = <<"C">>

\* C19: when add_messages(msgs) on a store that writes after every message
\* raises, the documents are as before and the list is the old list followed
\* by msgs.
C19_FailedEagerPersistKeepsMessages ==
    [][ ( /\ lastCall'.op = "add_messages"
          /\ _save_one_every_message[lastCall'.self]
          /\ lastCall'.raised # Ok )
        => /\ items' = items
           /\ _messages' = _messages \o lastCall'.arg
           /\ lastCall'.pre = _messages ]_vars

\* The retry after the failure: the document holds the messages twice.
C19_Witness ==
    /\ lastCall.op = "add_messages"
    /\ lastCall.raised = Ok
    /\ lastCall.arg = <<"C">>
    /\ lastCall.pre = <<"C">>
    /\ _save_one_every_message[lastCall.self]
    /\ StoredMessages(lastCall.self, thread_id[lastCall.self]) = {<<"C", "C">>}

\* C17: a deserialize_state that raises (invalid reference, no document, a
\* failed read, or a stored document of invalid shape) leaves every store's
\* thread id and flags, the message list and the account as they were.
C17_FailedRestoreChangesNothing ==
    [][ (lastCall'.op = "deserialize_state" /\ lastCall'.raised # Ok)
        => UNCHANGED <<storeVars, _messages, accountVars>> ]_vars

\* The stored document was read and did not validate.
C17_Witness ==
    /\ lastCall.op = "deserialize_state"
    /\ lastCall.raised = ValidationError
    /\ lastCall.calls = <<"read_item">>
    /\ thread_id[lastCall.self] = "U1"
    /\ list_messages(lastCall.self) = <<"A", "B">>

\* C13: two add_messages calls on one store that writes after every message,
\* each made by its own task and both returned without an exception, leave
\* the stored document of the thread different from the message list only if
\* the two calls overlapped; when the second call starts after the first has
\* returned, the document holds the list.
C13_StaleOnlyWhenConcurrent ==
    \A s \in Stores :
        ( /\ \A t \in Tasks :
                /\ tasks[t].pc = "returned"
                /\ tasks[t].self = s
                /\ tasks[t].op = "add_messages"
                /\ tasks[t].raised = Ok
          /\ _save_one_every_message[s]
          /\ StoredMessages(s, thread_id[s]) # {_messages} )
        => \A t \in Tasks : tasks[t].concurrent

\* Both calls overlapped, each suspended at its upsert, and both returned; the
\* document is the snapshot [A, B] of the first call while the list is
\* [A, B, C].
C13_Witness ==
    \E s \in Stores :
        /\ \A t \in Tasks :
              /\ tasks[t].pc = "returned"
              /\ tasks[t].self = s
              /\ tasks[t].op = "add_messages"
              /\ tasks[t].raised = Ok
              /\ tasks[t].concurrent
              /\ tasks[t].calls = <<"upsert_item">>
        /\ _save_one_every_message[s]
        /\ _messages = <<"A", "B", "C">>
        /\ StoredMessages(s, thread_id[s]) = {<<"A", "B">>}

\* C14: a task issues create_database (create_container) exactly when its
\* own read found the database (container) missing, whatever another task has
\* created since; nothing between the read and the create looks again.
C14_CreateFollowsOwnCheck ==
    \A t \in Tasks :
        /\ "create_database" \in Issued(tasks[t].calls) <=> "database" \in tasks[t].absent
        /\ "create_container" \in Issued(tasks[t].calls) <=> "container" \in tasks[t].absent

\* Two stores with the same names, each in its first serialize_state, have
\* both seen the database missing and both issued create_database; the second
\* create was answered with a conflict.
C14_Witness ==
    \E t, u \in Tasks :
        /\ tasks[t].self # tasks[u].self
        /\ tasks[t].op = "serialize_state" /\ tasks[u].op = "serialize_state"
        /\ database_name[tasks[t].self] = database_name[tasks[u].self]
        /\ container_name[tasks[t].self] = container_name[tasks[u].self]
        /\ "database" \in tasks[t].absent /\ "database" \in tasks[u].absent
        /\ "create_database" \in Issued(tasks[t].calls)
        /\ "create_database" \in Issued(tasks[u].calls)
        /\ tasks[u].pc = "returned"
        /\ tasks[u].raised = ServiceResponseException

\* C20: every message of the document stored under key T was given to
\* add_messages on a store whose thread id was T at that call, or was in T's
\* document when the process started.
C20_ThreadIsolation ==
    \A i \in items :
        Issued(MapSeq(LoadMessage, i.doc.messages)) \subseteq added[i.pk]

====
